---------------------------- MODULE Spec2Model ----------------------------
(***************************************************************************)
(* A model of the ring buffer of ring_buffer.c / ring_buffer.h and of the  *)
(* way main.c drives it.                                                   *)
(*                                                                         *)
(* Every field of struct ring is a uint32_t.  A uint32_t is modelled as a  *)
(* pair of 16-bit halves [hi, lo] with carry and borrow between them, so   *)
(* the arithmetic is exactly arithmetic modulo 2^32 and head/tail really   *)
(* wrap from UINT32_MAX to 0.  The backing region is an array of bytes and  *)
(* the copies are the two memcpy calls of __ring_put / __ring_get.         *)
(*                                                                         *)
(* Spec      main.c: one ring_buffer_init, then ring_put / ring_get with   *)
(*           any requested count, head and tail set to UINT32_MAX - 4 once *)
(* SpecInit  ring_buffer_init on a struct in any prior condition           *)
(* SpecPair  the index overflow test beside the same calls on a ring whose *)
(*           indices start at 0                                            *)
(* SpecFill  the single write / single read loops of main.c under TEST     *)
(* SpecSPSC  a producer in ring_put and a consumer in ring_get, a step per *)
(*           statement, interleaved                                        *)
(* SpecLive  SpecSPSC with both threads weakly fair                        *)
(***************************************************************************)
EXTENDS Integers, Sequences, FiniteSets

(***************************************************************************)
(* Bounds of the model.                                                    *)
(***************************************************************************)
\* largest element size (bytes) passed to ring_buffer_init
MaxEsize == 2
\* largest "ordinary" requested element count of a put/get (UINT32_MAX is
\* requested too)
MaxReq == 3
\* the caller's data are the byte stream seed, seed + 1, ... with a seed in
\* 0..MaxSeed
MaxSeed == 1
\* a put is called while fewer than MaxAdvance elements were accepted in the
\* run: caps the growth of head; the producer thread has MaxAdvance elements
\* to send
MaxAdvance == 5

(***************************************************************************)
(* Program constants.                                                      *)
(***************************************************************************)
\* uint8_t buf[8]: the backing region of main.c
RegionBytes == 8
\* errno.h
EINVAL == 22
\* ring.head = UINT32_MAX - 4
ForceBack == 4

(***************************************************************************)
(* uint32_t arithmetic.                                                    *)
(***************************************************************************)
\* a uint32_t is two 16-bit halves
Half == 2^16

U32 == [hi : 0..(Half - 1), lo : 0..(Half - 1)]

\* the uint32_t whose value is the natural number n < 2^31
ToU32(n) == [hi |-> n \div Half, lo |-> n % Half]

\* the natural number of a uint32_t below 2^31
ToNat(a) == a.hi * Half + a.lo

Zero32 == ToU32(0)

One32 == ToU32(1)

UINT32_MAX == [hi |-> Half - 1, lo |-> Half - 1]

\* a + b that loses the carry out of the low half
Add32NoCarry(a, b) ==
    [hi |-> (a.hi + b.hi) % Half, lo |-> (a.lo + b.lo) % Half]

\* a + b on uint32_t: modulo 2^32
Add32(a, b) ==
    LET s == a.lo + b.lo
    IN  [hi |-> (a.hi + b.hi + s \div Half) % Half, lo |-> s % Half]

\* a - b clamped at 0 instead of wrapping
Sub32Saturating(a, b) ==
    IF a.hi < b.hi \/ (a.hi = b.hi /\ a.lo < b.lo)
    THEN [hi |-> 0, lo |-> 0]
    ELSE LET d == a.lo - b.lo
             borrow == IF d < 0 THEN 1 ELSE 0
         IN  [hi |-> (a.hi - b.hi - borrow) % Half, lo |-> d % Half]

\* a - b on uint32_t: modulo 2^32
Sub32(a, b) ==
    LET d == a.lo - b.lo
        borrow == IF d < 0 THEN 1 ELSE 0
    IN  [hi |-> (a.hi - b.hi - borrow) % Half, lo |-> d % Half]

\* a < b on uint32_t
Lt32(a, b) == a.hi < b.hi \/ (a.hi = b.hi /\ a.lo < b.lo)

\* b >> 1
Shr1(b) == [hi |-> b.hi \div 2, lo |-> (b.hi % 2) * (Half \div 2) + b.lo \div 2]

RECURSIVE Mul32(_, _)
\* a * b on uint32_t: modulo 2^32 (shift and add)
Mul32(a, b) ==
    IF b = Zero32
    THEN Zero32
    ELSE Add32(IF b.lo % 2 = 1 THEN a ELSE Zero32, Mul32(Add32(a, a), Shr1(b)))

\* a / b on uint32_t, for a divisor 0 < b < 2^15 (long division by halves)
Div32(a, b) ==
    LET d == ToNat(b)
        r == a.hi % d
    IN  [hi |-> a.hi \div d, lo |-> (r * Half + a.lo) \div d]

RECURSIVE And16(_, _)
\* bitwise and of two 16-bit halves
And16(x, y) ==
    IF x = 0 \/ y = 0
    THEN 0
    ELSE (x % 2) * (y % 2) + 2 * And16(x \div 2, y \div 2)

\* a & b on uint32_t
And32(a, b) == [hi |-> And16(a.hi, b.hi), lo |-> And16(a.lo, b.lo)]

\* #define min(a, b) ((a) < (b) ? (a):(b))
min(a, b) == IF Lt32(a, b) THEN a ELSE b

(***************************************************************************)
(* State.                                                                  *)
(***************************************************************************)
VARIABLES
    rb,         \* struct ring: [buffer, size, mask, esize, head, tail]
    mem,        \* the bytes of the backing region buf[RegionBytes]
    op,         \* the last call: "none", "init", "put", "get", "force"
    arg,        \* its arguments: [size, esize] of init, [len] of put and get
    ret,        \* the value a ring_put / ring_get returned (uint32_t)
    iret,       \* the int the last ring_buffer_init returned
    usable,     \* the caller's flag: the last ring_buffer_init returned 0
    dst,        \* the bytes the last ring_get copied to the caller
    usedAtCall, \* ring_used(rb) when the last ring_put / ring_get was called
    adv,        \* elements accepted so far
    forced,     \* head and tail were set by hand since the last init
    stream,     \* the first byte of the caller's data
    tmp,        \* the first byte of the source array of the last ring_put
    roundTrip,  \* the last call was a ring_get of the count that the
                \* ring_put just before it was given on an empty buffer
    twin,       \* a second ring and its region, driven by the same calls:
                \* [rb, mem, ret, dst]
    accepted,   \* the bytes the ring_put calls accepted so far, in order
    delivered,  \* the bytes the ring_get calls delivered so far, in order
    iter,       \* the calls the fill-then-drain loops of main.c have made
    proc        \* a producer inside ring_put and a consumer inside ring_get:
                \* [p, c], each with its position and its locals

vars ==
    <<rb, mem, op, arg, ret, iret, usable, dst, usedAtCall, adv, forced,
      stream, tmp, roundTrip, twin, accepted, delivered, iter, proc>>

\* the offsets of the backing region
Region == 0..(RegionBytes - 1)

\* what an uninitialised word may hold
Garbage == {Zero32, [hi |-> 43690, lo |-> 43695]}

\* a source array of the caller: the bytes seed, seed + 1, ...
Source(seed) == [k \in Nat |-> (seed + k) % (2^8)]

\* the requested counts of a put / get
Reqs == {ToU32(n) : n \in 0..MaxReq} \cup {UINT32_MAX}

\* memcpy(d + doff, s + soff, n) on byte arrays
memcpy(d, doff, s, soff, n) ==
    [i \in DOMAIN d |->
        IF doff <= i /\ i < doff + n THEN s[soff + (i - doff)] ELSE d[i]]

(***************************************************************************)
(* ring_buffer.c                                                           *)
(***************************************************************************)
\* the power-of-two test left out
IsPow2Skipped(size) == TRUE

\* the power-of-two test of ring_buffer_init
IsPow2OrZero(size) == And32(size, Sub32(size, One32)) = Zero32

\* ring_buffer_init that leaves head and tail as they were
ring_buffer_initNoReset(r, buf, size0, esize) ==
    LET size == Div32(size0, esize)
    IN  IF And32(size, Sub32(size, One32)) # Zero32
        THEN [rb |-> r, ret |-> -EINVAL]
        ELSE LET r1 == [r EXCEPT !.buffer = buf, !.size = size,
                                 !.esize = esize]
             IN  IF Lt32(size, ToU32(2))
                 THEN [rb |-> [r1 EXCEPT !.mask = Zero32], ret |-> -EINVAL]
                 ELSE [rb |-> [r1 EXCEPT !.mask = Sub32(size, One32)],
                       ret |-> 0]

\* the struct and the return value of ring_buffer_init(rb, buf, size, esize)
ring_buffer_init(r, buf, size0, esize) ==
    LET size == Div32(size0, esize)
    IN  IF ~IsPow2OrZero(size)
        THEN [rb |-> r, ret |-> -EINVAL]
        ELSE LET r1 == [buffer |-> buf, size |-> size, mask |-> r.mask,
                        esize |-> esize, head |-> Zero32, tail |-> Zero32]
             IN  IF Lt32(size, ToU32(2))
                 THEN [rb |-> [r1 EXCEPT !.mask = Zero32], ret |-> -EINVAL]
                 ELSE [rb |-> [r1 EXCEPT !.mask = Sub32(size, One32)],
                       ret |-> 0]

\* ring_space without the subtraction of the used count
ring_spaceNoUsed(r) == r.size

\* ring_space one too large
ring_spaceOffByOne(r) == Add32(Sub32(r.size, Sub32(r.head, r.tail)), One32)

\* ring_space from the masked indices
ring_spaceMasked(r) ==
    Sub32(r.size, Sub32(And32(r.head, r.mask), And32(r.tail, r.mask)))

\* ring_space(rb)
ring_space(r) == Sub32(r.size, Sub32(r.head, r.tail))

\* ring_used from the masked indices
ring_usedMasked(r) == Sub32(And32(r.head, r.mask), And32(r.tail, r.mask))

\* ring_used(rb)
ring_used(r) == Sub32(r.head, r.tail)

\* the locals with a first memcpy that may run to the whole byte size
SegmentsWholeFirst(r, len0, offset0) ==
    LET off1 == And32(offset0, r.mask)
        offset == Mul32(off1, r.esize)
        size == Mul32(r.size, r.esize)
        len == Mul32(len0, r.esize)
    IN  [offset |-> offset, size |-> size, len |-> len,
         l |-> IF Lt32(len, size) THEN len ELSE size]

\* the locals with the offset masked by size instead of mask
SegmentsMaskBySize(r, len0, offset0) ==
    LET off1 == And32(offset0, r.size)
        offset == Mul32(off1, r.esize)
        size == Mul32(r.size, r.esize)
        len == Mul32(len0, r.esize)
    IN  [offset |-> offset, size |-> size, len |-> len,
         l |-> IF Lt32(len, Sub32(size, offset)) THEN len
               ELSE Sub32(size, offset)]

\* the locals of __ring_put / __ring_get before their two memcpy calls: the
\* byte offset, the byte size, the byte count and the byte count l of the
\* first memcpy
Segments(r, len0, offset0) ==
    LET scaled == r.esize # One32
        off1 == And32(offset0, r.mask)
        offset == IF scaled THEN Mul32(off1, r.esize) ELSE off1
        size == IF scaled THEN Mul32(r.size, r.esize) ELSE r.size
        len == IF scaled THEN Mul32(len0, r.esize) ELSE len0
    IN  [offset |-> offset, size |-> size, len |-> len,
         l |-> min(len, Sub32(size, offset))]

\* __ring_put whose second memcpy reads from src again, not from src + l
__ring_putSecondFromStart(r, m, src, len0, offset0) ==
    LET s == Segments(r, len0, offset0)
        m1 == memcpy(m, ToNat(s.offset), src, 0, ToNat(s.l))
    IN  memcpy(m1, 0, src, 0, ToNat(Sub32(s.len, s.l)))

\* the backing store after __ring_put(rb, src, len, offset)
__ring_put(r, m, src, len0, offset0) ==
    LET s == Segments(r, len0, offset0)
        m1 == memcpy(m, ToNat(s.offset), src, 0, ToNat(s.l))
    IN  memcpy(m1, 0, src, ToNat(s.l), ToNat(Sub32(s.len, s.l)))

\* ring_put that advances head by the requested count
ring_putAdvanceRequested(r, m, src, len0) ==
    LET l == Sub32(r.size, Sub32(r.head, r.tail))
        len == IF Lt32(len0, l) THEN len0 ELSE l
    IN  [rb |-> [r EXCEPT !.head = Add32(r.head, len0)],
         mem |-> __ring_put(r, m, src, len, r.head),
         ret |-> len]

\* ring_put that accepts up to capacity elements, over the oldest unread ones
ring_putOverOldest(r, m, src, len0) ==
    LET len == IF Lt32(len0, r.size) THEN len0 ELSE r.size
    IN  [rb |-> [r EXCEPT !.head = Add32(r.head, len)],
         mem |-> __ring_put(r, m, src, len, r.head),
         ret |-> len]

\* the struct, the backing store and the return value of ring_put(rb, buf, len)
ring_put(r, m, src, len0) ==
    LET l == ring_space(r)
        len == min(len0, l)
    IN  [rb |-> [r EXCEPT !.head = Add32(r.head, len)],
         mem |-> __ring_put(r, m, src, len, r.head),
         ret |-> len]

\* __ring_get without the second segment
__ring_getNoSplit(r, m, d, len0, offset0) ==
    LET off1 == And32(offset0, r.mask)
        offset == Mul32(off1, r.esize)
        size == Mul32(r.size, r.esize)
        len == Mul32(len0, r.esize)
        l == IF Lt32(len, Sub32(size, offset)) THEN len ELSE Sub32(size, offset)
    IN  memcpy(d, 0, m, ToNat(offset), ToNat(l))

\* __ring_get whose second memcpy writes to dst again, not to dst + l
__ring_getSecondToStart(r, m, d, len0, offset0) ==
    LET s == Segments(r, len0, offset0)
        d1 == memcpy(d, 0, m, ToNat(s.offset), ToNat(s.l))
    IN  memcpy(d1, 0, m, 0, ToNat(Sub32(s.len, s.l)))

\* the caller's array after __ring_get(rb, dst, len, offset)
__ring_get(r, m, d, len0, offset0) ==
    LET s == Segments(r, len0, offset0)
        d1 == memcpy(d, 0, m, ToNat(s.offset), ToNat(s.l))
    IN  memcpy(d1, ToNat(s.l), m, 0, ToNat(Sub32(s.len, s.l)))

\* ring_get that advances tail by the requested count
ring_getAdvanceRequested(r, m, d, len0) ==
    LET l == Sub32(r.head, r.tail)
        len == IF Lt32(l, len0) THEN l ELSE len0
    IN  [rb |-> [r EXCEPT !.tail = Add32(r.tail, len0)],
         dst |-> __ring_get(r, m, d, len, r.tail),
         ret |-> len]

\* ring_get that sets head and tail back to 0 once the buffer is drained
ring_getRewind(r, m, d, len0) ==
    LET l == Sub32(r.head, r.tail)
        len == IF Lt32(l, len0) THEN l ELSE len0
    IN  [rb |-> IF len = l /\ len # Zero32
                THEN [r EXCEPT !.head = Zero32, !.tail = Zero32]
                ELSE [r EXCEPT !.tail = Add32(r.tail, len)],
         dst |-> __ring_get(r, m, d, len, r.tail),
         ret |-> len]

\* the struct, the caller's array and the return value of ring_get(rb, buf, len)
ring_get(r, m, d, len0) ==
    LET l == ring_used(r)
        len == min(l, len0)
    IN  [rb |-> [r EXCEPT !.tail = Add32(r.tail, len)],
         dst |-> __ring_get(r, m, d, len, r.tail),
         ret |-> len]

(***************************************************************************)
(* The caller (main.c): one action per call.                               *)
(***************************************************************************)
\* the destination array of a get that delivers n bytes
Blank(n) == [k \in 0..(n - 1) |-> 0]

\* the first n bytes of a byte array, as a sequence
Bytes(a, n) == [k \in 1..n |-> a[k - 1]]

\* nobody is inside ring_put or ring_get: both are before their first
\* statement
Idle ==
    [p |-> [pc |-> 1, len |-> Zero32],
     c |-> [pc |-> 1, len |-> Zero32, dst |-> Blank(0)]]

\* a struct ring nobody initialised: every field holds the word g
Uninitialised(g) ==
    [buffer |-> "wild", size |-> g, mask |-> g, esize |-> g, head |-> g,
     tail |-> g]

\* ring_t ring; uint8_t buf[8]; both uninitialised
Init ==
    /\ \E g \in Garbage : rb = Uninitialised(g)
    /\ mem \in [Region -> {170}]
    /\ op = "none"
    /\ arg = [len |-> Zero32]
    /\ ret = Zero32
    /\ iret = 0
    /\ usable = FALSE
    /\ dst = Blank(0)
    /\ usedAtCall = Zero32
    /\ adv = 0
    /\ forced = FALSE
    /\ stream \in 0..MaxSeed
    /\ tmp = stream
    /\ roundTrip = FALSE
    /\ twin = [rb |-> rb, mem |-> mem, ret |-> ret, dst |-> dst]
    /\ accepted = <<>>
    /\ delivered = <<>>
    /\ iter = 0
    /\ proc = Idle

\* ring_buffer_init(&ring, buf, size, esize), on a struct in any condition
CallInit(size, esize) ==
    /\ LET res == ring_buffer_init(rb, "buf", ToU32(size), ToU32(esize))
       IN  /\ rb' = res.rb
           /\ iret' = res.ret
           /\ usable' = (res.ret = 0)
    /\ op' = "init"
    /\ arg' = [size |-> size, esize |-> esize]
    /\ forced' = FALSE
    /\ roundTrip' = FALSE
    /\ UNCHANGED <<mem, ret, dst, usedAtCall, adv, stream, tmp, accepted,
                   delivered>>

\* ring_put(&ring, tmp, len): tmp holds the caller's stream from the first
\* byte that no put accepted yet
CallPut(len) ==
    /\ usable
    /\ adv < MaxAdvance
    /\ tmp' = stream + adv * ToNat(rb.esize)
    /\ LET res == ring_put(rb, mem, Source(tmp'), len)
       IN  /\ rb' = res.rb
           /\ mem' = res.mem
           /\ ret' = res.ret
           /\ adv' = adv + ToNat(res.ret)
    /\ accepted' =
          accepted \o Bytes(Source(tmp'), (adv' - adv) * ToNat(rb.esize))
    /\ op' = "put"
    /\ arg' = [len |-> len]
    /\ usedAtCall' = ring_used(rb)
    /\ roundTrip' = FALSE
    /\ UNCHANGED <<iret, usable, dst, forced, stream, delivered>>

\* ring_get(&ring, tmp, len): tmp has room for the elements delivered
CallGet(len) ==
    /\ usable
    /\ LET n == ToNat(Mul32(min(ring_used(rb), len), rb.esize))
           res == ring_get(rb, mem, Blank(n), len)
       IN  /\ rb' = res.rb
           /\ dst' = res.dst
           /\ ret' = res.ret
    /\ delivered' = delivered \o Bytes(dst', ToNat(ret') * ToNat(rb.esize))
    /\ op' = "get"
    /\ arg' = [len |-> len]
    /\ usedAtCall' = ring_used(rb)
    /\ roundTrip' = (op = "put" /\ usedAtCall = Zero32 /\ arg.len = len)
    /\ UNCHANGED <<mem, iret, usable, adv, forced, stream, tmp, accepted>>

\* head and tail of a struct set to UINT32_MAX - 4
Forced(r) ==
    [r EXCEPT !.head = Sub32(UINT32_MAX, ToU32(ForceBack)),
              !.tail = Sub32(UINT32_MAX, ToU32(ForceBack))]

\* ring.head = UINT32_MAX - 4; ring.tail = UINT32_MAX - 4; on the drained buffer
ForceIndex ==
    /\ usable
    /\ ~forced
    /\ rb.head = rb.tail
    /\ rb' = Forced(rb)
    /\ forced' = TRUE
    /\ op' = "force"
    /\ arg' = [len |-> Zero32]
    /\ roundTrip' = FALSE
    /\ UNCHANGED <<mem, ret, iret, usable, dst, usedAtCall, adv, stream, tmp,
                   accepted, delivered>>

\* main.c calls ring_buffer_init once, first
Start ==
    /\ op = "none"
    /\ \E size \in 0..RegionBytes, esize \in 1..MaxEsize : CallInit(size, esize)
    /\ UNCHANGED <<twin, iter, proc>>

\* a ring_put of any requested count
Put == (\E len \in Reqs : CallPut(len)) /\ UNCHANGED <<twin, iter, proc>>

\* a ring_get of any requested count
Get == (\E len \in Reqs : CallGet(len)) /\ UNCHANGED <<twin, iter, proc>>

\* the indices forced, once
Force == ForceIndex /\ UNCHANGED <<twin, iter, proc>>

\* main.c: one ring_buffer_init, then puts and gets, the indices forced once
Next == Start \/ Put \/ Get \/ Force

Spec == Init /\ [][Next]_vars

(***************************************************************************)
(* ring_buffer_init on a struct in any prior condition.                    *)
(***************************************************************************)
\* what a field of a struct that was in use, or never set, may hold
PriorWords == Garbage \cup {ToU32(3), ToU32(6)}

\* the struct was never set, or was in use: head and tail are not 0
InitPrior ==
    /\ rb \in [buffer : {"wild", "buf"}, size : {ToU32(4)}, mask : PriorWords,
               esize : {One32}, head : PriorWords \ {Zero32},
               tail : PriorWords \ {Zero32}]
    /\ mem \in [Region -> {170}]
    /\ op = "none"
    /\ arg = [len |-> Zero32]
    /\ ret = Zero32
    /\ iret = 0
    /\ usable = FALSE
    /\ dst = Blank(0)
    /\ usedAtCall = Zero32
    /\ adv = 0
    /\ forced = FALSE
    /\ stream = 0
    /\ tmp = stream
    /\ roundTrip = FALSE
    /\ twin = [rb |-> rb, mem |-> mem, ret |-> ret, dst |-> dst]
    /\ accepted = <<>>
    /\ delivered = <<>>
    /\ iter = 0
    /\ proc = Idle

NextPrior ==
    /\ \E size \in 0..RegionBytes, esize \in 1..MaxEsize : CallInit(size, esize)
    /\ UNCHANGED <<twin, iter, proc>>

SpecInit == InitPrior /\ [][NextPrior]_vars

(***************************************************************************)
(* The index overflow test of main.c beside the same calls on a ring whose *)
(* indices start at 0.                                                     *)
(***************************************************************************)
InitPair ==
    /\ \E size \in 0..RegionBytes, esize \in 1..MaxEsize, g \in Garbage :
          LET res == ring_buffer_init(Uninitialised(g), "buf", ToU32(size),
                                      ToU32(esize))
          IN  /\ res.ret = 0
              /\ rb = Forced(res.rb)
              /\ twin = [rb |-> res.rb, mem |-> [i \in Region |-> 170],
                         ret |-> Zero32, dst |-> Blank(0)]
    /\ mem = twin.mem
    /\ op = "force"
    /\ arg = [len |-> Zero32]
    /\ ret = Zero32
    /\ iret = 0
    /\ usable = TRUE
    /\ dst = Blank(0)
    /\ usedAtCall = Zero32
    /\ adv = 0
    /\ forced = TRUE
    /\ stream \in 0..MaxSeed
    /\ tmp = stream
    /\ roundTrip = FALSE
    /\ accepted = <<>>
    /\ delivered = <<>>
    /\ iter = 0
    /\ proc = Idle

\* the same ring_put on both rings
PairPut(len) ==
    /\ CallPut(len)
    /\ LET res == ring_put(twin.rb, twin.mem, Source(tmp'), len)
       IN  twin' = [twin EXCEPT !.rb = res.rb, !.mem = res.mem,
                                !.ret = res.ret]

\* the same ring_get on both rings
PairGet(len) ==
    /\ CallGet(len)
    /\ LET n == ToNat(Mul32(min(ring_used(twin.rb), len), twin.rb.esize))
           res == ring_get(twin.rb, twin.mem, Blank(n), len)
       IN  twin' = [twin EXCEPT !.rb = res.rb, !.dst = res.dst,
                                !.ret = res.ret]

NextPair ==
    \/ (\E len \in Reqs : PairPut(len)) /\ UNCHANGED <<iter, proc>>
    \/ (\E len \in Reqs : PairGet(len)) /\ UNCHANGED <<iter, proc>>

SpecPair == InitPair /\ [][NextPair]_vars

(***************************************************************************)
(* The single read / write test of main.c: eight ring_put of one element,  *)
(* then eight ring_get of one element, each under TEST.                    *)
(***************************************************************************)
\* for (int i = 0; i < 8; i++)
FillCalls == 8

\* the bytes of the int v at &v, least significant first
IntBytes(v) == [k \in 0..3 |-> (v \div (2^(8 * k))) % (2^8)]

\* (i > 3 ? 0 : 1)
Expect(i) == IF i > 3 THEN Zero32 ELSE One32

\* the TEST around the last call passed: control did not go to _err
TestPassed ==
    CASE op = "init" -> iret = 0
      [] op = "put" -> ret = Expect(iter - 1)
      [] op = "get" -> ret = Expect(iter - 1 - FillCalls)
      [] OTHER -> TRUE

\* ring_put(&ring, &i, 1) of the first loop, i == iter
FillPut ==
    /\ usable
    /\ TestPassed
    /\ iter < FillCalls
    /\ LET res == ring_put(rb, mem, IntBytes(iter), One32)
       IN  /\ rb' = res.rb
           /\ mem' = res.mem
           /\ ret' = res.ret
           /\ adv' = adv + ToNat(res.ret)
    /\ accepted' =
          accepted \o Bytes(IntBytes(iter), (adv' - adv) * ToNat(rb.esize))
    /\ op' = "put"
    /\ arg' = [len |-> One32]
    /\ usedAtCall' = ring_used(rb)
    /\ roundTrip' = FALSE
    /\ iter' = iter + 1
    /\ UNCHANGED <<iret, usable, dst, forced, stream, tmp, delivered, twin,
                   proc>>

\* ring_get(&ring, &tmp, 1) of the second loop, i == iter - FillCalls
FillGet ==
    /\ TestPassed
    /\ FillCalls <= iter
    /\ iter < 2 * FillCalls
    /\ CallGet(One32)
    /\ iter' = iter + 1
    /\ UNCHANGED <<twin, proc>>

\* main.c up to the end of the second loop
NextFill == Start \/ FillPut \/ FillGet

SpecFill == Init /\ [][NextFill]_vars

(***************************************************************************)
(* One producer inside ring_put and one consumer inside ring_get, a step   *)
(* per statement, every read and write of the struct and of the region     *)
(* visible to the other side at once.                                       *)
(***************************************************************************)
\* ring_put with head advanced before the copy
PutOrderHeadFirst == <<"space", "head", "copy1", "copy2">>

\* the statements of ring_put in program order; the two memcpy calls of
\* __ring_put are a step each
PutOrder == <<"space", "copy1", "copy2", "head">>

\* ring_get that never writes tail back
GetOrderNoTail == <<"used", "copy1", "copy2">>

\* the statements of ring_get in program order
GetOrder == <<"used", "copy1", "copy2", "tail">>

\* the position after position pc of a call of Len(order) statements
NextPc(order, pc) == (pc % Len(order)) + 1

\* what the steps of the two sides leave alone
callerVars ==
    <<op, arg, ret, iret, usable, dst, usedAtCall, forced, stream, roundTrip,
      twin, iter>>

\* a ring that ring_buffer_init accepted, empty, its indices at 0 or set to
\* UINT32_MAX - 4; the producer has MaxAdvance elements to send
InitSPSC ==
    /\ \E size \in 0..RegionBytes, esize \in 1..MaxEsize, g \in Garbage :
          LET res == ring_buffer_init(Uninitialised(g), "buf", ToU32(size),
                                      ToU32(esize))
          IN  /\ res.ret = 0
              /\ rb \in {res.rb, Forced(res.rb)}
    /\ mem = [i \in Region |-> 170]
    /\ op = "none"
    /\ arg = [len |-> Zero32]
    /\ ret = Zero32
    /\ iret = 0
    /\ usable = TRUE
    /\ dst = Blank(0)
    /\ usedAtCall = Zero32
    /\ adv = 0
    /\ forced = (rb.head # Zero32)
    /\ stream \in 0..MaxSeed
    /\ tmp = stream
    /\ roundTrip = FALSE
    /\ twin = [rb |-> rb, mem |-> mem, ret |-> ret, dst |-> dst]
    /\ accepted = <<>>
    /\ delivered = <<>>
    /\ iter = 0
    /\ proc = Idle

\* ring_put(&ring, tmp, n) entered with n elements of the data not yet
\* accepted: l = ring_space(rb); len = min(len, l);
PutSpace(n) ==
    /\ PutOrder[proc.p.pc] = "space"
    /\ adv + n <= MaxAdvance
    /\ tmp' = stream + adv * ToNat(rb.esize)
    /\ proc' = [proc EXCEPT !.p = [pc |-> NextPc(PutOrder, proc.p.pc),
                                   len |-> min(ToU32(n), ring_space(rb))]]
    /\ UNCHANGED <<rb, mem, adv, accepted, delivered>>
    /\ UNCHANGED callerVars

\* memcpy(rb->buffer + offset, src, l);
PutCopy1 ==
    /\ PutOrder[proc.p.pc] = "copy1"
    /\ \E s \in {Segments(rb, proc.p.len, rb.head)} :
          mem' = memcpy(mem, ToNat(s.offset), Source(tmp), 0, ToNat(s.l))
    /\ proc' = [proc EXCEPT !.p.pc = NextPc(PutOrder, proc.p.pc)]
    /\ UNCHANGED <<rb, adv, tmp, accepted, delivered>>
    /\ UNCHANGED callerVars

\* memcpy(rb->buffer, src + l, len - l);
PutCopy2 ==
    /\ PutOrder[proc.p.pc] = "copy2"
    /\ \E s \in {Segments(rb, proc.p.len, rb.head)} :
          mem' = memcpy(mem, 0, Source(tmp), ToNat(s.l),
                        ToNat(Sub32(s.len, s.l)))
    /\ proc' = [proc EXCEPT !.p.pc = NextPc(PutOrder, proc.p.pc)]
    /\ UNCHANGED <<rb, adv, tmp, accepted, delivered>>
    /\ UNCHANGED callerVars

\* rb->head += len; return len;
PutHead ==
    /\ PutOrder[proc.p.pc] = "head"
    /\ rb' = [rb EXCEPT !.head = Add32(rb.head, proc.p.len)]
    /\ adv' = adv + ToNat(proc.p.len)
    /\ accepted' =
          accepted \o Bytes(Source(tmp), ToNat(Mul32(proc.p.len, rb.esize)))
    /\ proc' = [proc EXCEPT !.p.pc = NextPc(PutOrder, proc.p.pc)]
    /\ UNCHANGED <<mem, tmp, delivered>>
    /\ UNCHANGED callerVars

\* ring_get(&ring, r_tmp, n) entered: l = ring_used(rb); len = min(l, len);
GetUsed(n) ==
    /\ GetOrder[proc.c.pc] = "used"
    /\ \E len \in {min(ring_used(rb), ToU32(n))} :
          proc' = [proc EXCEPT !.c = [pc |-> NextPc(GetOrder, proc.c.pc),
                                      len |-> len,
                                      dst |-> Blank(ToNat(Mul32(len,
                                                                rb.esize)))]]
    /\ UNCHANGED <<rb, mem, adv, tmp, accepted, delivered>>
    /\ UNCHANGED callerVars

\* memcpy(dst, rb->buffer + offset, l);
GetCopy1 ==
    /\ GetOrder[proc.c.pc] = "copy1"
    /\ \E s \in {Segments(rb, proc.c.len, rb.tail)} :
          proc' = [proc EXCEPT
                       !.c.pc = NextPc(GetOrder, proc.c.pc),
                       !.c.dst = memcpy(proc.c.dst, 0, mem, ToNat(s.offset),
                                        ToNat(s.l))]
    /\ UNCHANGED <<rb, mem, adv, tmp, accepted, delivered>>
    /\ UNCHANGED callerVars

\* memcpy(dst + l, rb->buffer, len - l);
GetCopy2 ==
    /\ GetOrder[proc.c.pc] = "copy2"
    /\ \E s \in {Segments(rb, proc.c.len, rb.tail)} :
          proc' = [proc EXCEPT
                       !.c.pc = NextPc(GetOrder, proc.c.pc),
                       !.c.dst = memcpy(proc.c.dst, ToNat(s.l), mem, 0,
                                        ToNat(Sub32(s.len, s.l)))]
    /\ UNCHANGED <<rb, mem, adv, tmp, accepted, delivered>>
    /\ UNCHANGED callerVars

\* rb->tail += len; return len;
GetTail ==
    /\ GetOrder[proc.c.pc] = "tail"
    /\ rb' = [rb EXCEPT !.tail = Add32(rb.tail, proc.c.len)]
    /\ delivered' =
          delivered \o Bytes(proc.c.dst, ToNat(Mul32(proc.c.len, rb.esize)))
    /\ proc' = [proc EXCEPT !.c.pc = NextPc(GetOrder, proc.c.pc)]
    /\ UNCHANGED <<mem, adv, tmp, accepted>>
    /\ UNCHANGED callerVars

\* the producer: ring_put after ring_put while it has data left
Producer ==
    \/ \E n \in 1..MaxReq : PutSpace(n)
    \/ PutCopy1
    \/ PutCopy2
    \/ PutHead

\* the consumer: ring_get after ring_get, each asking for 1..MaxReq elements
Consumer ==
    \/ \E n \in 1..MaxReq : GetUsed(n)
    \/ GetCopy1
    \/ GetCopy2
    \/ GetTail

NextSPSC == Producer \/ Consumer

SpecSPSC == InitSPSC /\ [][NextSPSC]_vars

\* both threads keep running: neither is left for ever before a statement it
\* can execute
SpecLive ==
    InitSPSC /\ [][NextSPSC]_vars /\ WF_vars(Producer) /\ WF_vars(Consumer)

(***************************************************************************)
(* Properties.                                                             *)
(***************************************************************************)
\* head - tail modulo 2^32, written out for the properties
Stored(r) == Sub32(r.head, r.tail)

\* capacity minus the stored count, modulo 2^32
Free(r) == Sub32(r.size, Stored(r))

\* a <= b on uint32_t
Le32(a, b) == ~Lt32(b, a)

\* a + b does not fit 32 bits
Carry32(a, b) == a.hi + b.hi + (a.lo + b.lo) \div Half >= Half

\* C1: on a successfully initialised buffer ring_space(rb) + ring_used(rb),
\* added as size_t values (no wrap at 2^32), is the capacity, in every
\* state reached by puts and gets.
C1_SpacePlusUsed ==
    usable =>
        /\ Add32(ring_space(rb), ring_used(rb)) = rb.size
        /\ ~Carry32(ring_space(rb), ring_used(rb))

\* C1 witness: the indices have crossed 2^32 (head wrapped, tail not yet) with
\* the buffer partly filled.
C1_Witness ==
    /\ usable
    /\ forced
    /\ Lt32(rb.head, rb.tail)
    /\ ring_used(rb) # Zero32
    /\ ring_space(rb) # Zero32

\* C2: on a successfully initialised buffer the wrapping difference
\* head - tail is at most the capacity: the buffer never holds more than
\* capacity elements and tail never passes head.
C2_UsedInRange == usable => Le32(Stored(rb), rb.size)

\* C2 witness: the buffer is full with head wrapped past 2^32 and tail not.
C2_Witness ==
    /\ usable
    /\ Stored(rb) = rb.size
    /\ Lt32(rb.head, rb.tail)

\* C3: every ring_put returns min(requested count, free space at call time)
\* and advances head by exactly the returned value modulo 2^32.
C3_PutCount ==
    [][op' = "put" =>
          /\ ret' = (IF Lt32(arg'.len, Free(rb)) THEN arg'.len ELSE Free(rb))
          /\ rb'.head = Add32(rb.head, ret')]_vars

\* C3 witness: capacity 4, 3 elements stored, a request to write 3 returned 1.
C3_Witness ==
    /\ op = "put"
    /\ rb.size = ToU32(4)
    /\ usedAtCall = ToU32(3)
    /\ arg.len = ToU32(3)
    /\ ret = One32

\* C4: every ring_get returns min(requested count, stored count at call time)
\* and advances tail by exactly the returned value modulo 2^32.
C4_GetCount ==
    [][op' = "get" =>
          /\ ret' = (IF Lt32(arg'.len, Stored(rb)) THEN arg'.len
                     ELSE Stored(rb))
          /\ rb'.tail = Add32(rb.tail, ret')]_vars

\* C4 witness: a short read: 3 requested, 2 stored, 2 returned, tail wrapped
\* past 2^32.
C4_Witness ==
    /\ op = "get"
    /\ arg.len = ToU32(3)
    /\ usedAtCall = ToU32(2)
    /\ ret = ToU32(2)
    /\ forced
    /\ rb.tail.hi = 0

\* the bytes of the first n elements of the source array of the last put
Written(n) == [k \in 0..(n * ToNat(rb.esize) - 1) |-> (tmp + k) % (2^8)]

\* the requested count of the last call is in 1..capacity
LenFits == Le32(One32, arg.len) /\ Le32(arg.len, rb.size)

\* C5: a ring_put of n elements, 1 <= n <= capacity, on an empty buffer
\* returns n, and the ring_get of n that follows it returns n, delivers the
\* n elements written in their order and leaves the buffer empty.
C5_RoundTrip ==
    /\ (op = "put" /\ usedAtCall = Zero32 /\ LenFits) => ret = arg.len
    /\ (op = "get" /\ roundTrip /\ LenFits) =>
          /\ ret = arg.len
          /\ dst = Written(ToNat(arg.len))
          /\ rb.head = rb.tail

\* C5 witness: a round trip of two or more 2-byte elements whose slots wrap
\* round the end of the region.
C5_Witness ==
    /\ op = "get"
    /\ roundTrip
    /\ LenFits
    /\ Lt32(One32, ret)
    /\ rb.esize = ToU32(2)
    /\ Lt32(And32(rb.tail, rb.mask), ret)
    /\ And32(rb.tail, rb.mask) # Zero32

\* C6 (SpecPair): a ring whose head and tail were set to UINT32_MAX - 4 and a
\* ring whose head and tail are 0, given the same puts and gets, return the
\* same values, deliver the same bytes and report the same space and used
\* counts, also once head and tail have wrapped to 0.
C6_OverflowHarmless ==
    /\ ret = twin.ret
    /\ dst = twin.dst
    /\ ring_space(rb) = ring_space(twin.rb)
    /\ ring_used(rb) = ring_used(twin.rb)

\* C6 witness: a get delivered elements after head had crossed 2^32 while
\* tail had not.
C6_Witness ==
    /\ op = "get"
    /\ ret # Zero32
    /\ Lt32(rb.head, rb.tail)
    /\ twin.rb.tail # twin.rb.head

\* the capacity an init call was given, floor(size / esize)
Capacity == arg.size \div arg.esize

\* the powers of two from 2 on that a region of RegionBytes can give
PowersOfTwo == {2^k : k \in 1..RegionBytes}

\* C7 (SpecInit): ring_buffer_init returns -EINVAL exactly when
\* floor(size / esize) is no power of two or is below 2, and 0 otherwise; a
\* remainder of the division is no reason to fail.
C7_InitResult ==
    op = "init" =>
        /\ iret \in {0, -EINVAL}
        /\ (iret = -EINVAL) <=> (Capacity \notin PowersOfTwo)

\* C7 witness: an init that succeeded although size / esize left a remainder.
C7_Witness ==
    /\ op = "init"
    /\ iret = 0
    /\ arg.size % arg.esize # 0

\* C8 (SpecInit): whenever ring_buffer_init fails, the struct is left with
\* mask == 0.
C8_FailedInitMaskZero == (op = "init" /\ iret # 0) => rb.mask = Zero32

\* C9 (SpecInit): after a successful ring_buffer_init the struct holds the
\* backing reference, size == capacity, the element size, mask == capacity - 1
\* and head == tail == 0, so used is 0 and space is the capacity.
C9_InitState ==
    (op = "init" /\ iret = 0) =>
        /\ rb = [buffer |-> "buf", size |-> ToU32(Capacity),
                 mask |-> ToU32(Capacity - 1), esize |-> ToU32(arg.esize),
                 head |-> Zero32, tail |-> Zero32]
        /\ ring_used(rb) = Zero32
        /\ ring_space(rb) = ToU32(Capacity)

\* C9 witness: the init of main.c, an 8-byte region of 2-byte elements, has
\* succeeded (every struct of SpecInit had head and tail set before).
C9_Witness ==
    /\ op = "init"
    /\ iret = 0
    /\ arg.size = RegionBytes
    /\ arg.esize = 2
    /\ rb.mask = ToU32(3)

\* C10: ring_put on a full buffer and ring_get on an empty buffer return 0
\* whatever count is requested, and change neither head, tail nor any byte of
\* the backing store.
C10_FullEmpty ==
    [][/\ (op' = "put" /\ Stored(rb) = rb.size) =>
             (ret' = Zero32 /\ rb' = rb /\ mem' = mem)
       /\ (op' = "get" /\ Stored(rb) = Zero32) =>
             (ret' = Zero32 /\ rb' = rb /\ mem' = mem)]_vars

\* C10 witness: a put of UINT32_MAX elements on a full buffer returned 0.
C10_Witness ==
    /\ op = "put"
    /\ usedAtCall = rb.size
    /\ arg.len = UINT32_MAX
    /\ ret = Zero32

\* the physical slots of the k elements from logical index start on
Slots(r, start, k) ==
    {ToNat(And32(Add32(start, ToU32(j)), r.mask)) : j \in 0..(ToNat(k) - 1)}

\* the physical slot a byte offset of the region lies in
SlotOf(r, b) == b \div ToNat(r.esize)

\* C11: a ring_put that accepts k elements changes only head and the slots
\* (head + i) & mask, 0 <= i < k: tail, size, mask, esize, the buffer
\* reference and every other byte of the region, so every slot that holds an
\* unread element, are as before the call.
C11_PutFrame ==
    [][op' = "put" =>
          /\ rb' = [rb EXCEPT !.head = rb'.head]
          /\ \A written \in {Slots(rb, rb.head, ret')},
                unread \in {Slots(rb, rb.tail, Stored(rb))} :
                \A b \in Region :
                   /\ SlotOf(rb, b) \notin written => mem'[b] = mem[b]
                   /\ SlotOf(rb, b) \in unread => mem'[b] = mem[b]]_vars

\* C11 witness: a put of two or more 2-byte elements wrapped round the end of
\* the region while unread elements were stored.
C11_Witness ==
    /\ op = "put"
    /\ rb.esize = ToU32(2)
    /\ usedAtCall # Zero32
    /\ Lt32(One32, ret)
    /\ Lt32(And32(rb.head, rb.mask), ret)
    /\ And32(rb.head, rb.mask) # Zero32

\* C12: a ring_get changes only tail (and the caller's array): head, size,
\* mask, esize, the buffer reference and every byte of the region are as
\* before the call.
C12_GetFrame ==
    [][op' = "get" =>
          /\ rb' = [rb EXCEPT !.tail = rb'.tail]
          /\ mem' = mem]_vars

\* C12 witness: a get delivered two or more elements from slots that wrap
\* round the end of the region and drained the buffer.
C12_Witness ==
    /\ op = "get"
    /\ Lt32(One32, ret)
    /\ Lt32(And32(rb.tail, rb.mask), ret)
    /\ And32(rb.tail, rb.mask) # Zero32
    /\ rb.head = rb.tail

\* d is an initial part of a
IsPrefix(d, a) == Len(d) <= Len(a) /\ SubSeq(a, 1, Len(d)) = d

\* the producer is between its reading of the free space and its write of head
Copying == PutOrder[proc.p.pc] \in {"copy1", "copy2"}

\* the slots the call of ring_put in progress is writing
BeingWritten == IF Copying THEN Slots(rb, rb.head, proc.p.len) ELSE {}

\* C13 (SpecSPSC): with one producer in ring_put and one consumer in ring_get,
\* interleaved statement by statement, in every state 0 <= head - tail <=
\* capacity, no slot the producer is writing holds an element the consumer
\* has not consumed, and the bytes delivered are an initial part of the bytes
\* accepted.
C13_SPSC ==
    /\ Le32(Stored(rb), rb.size)
    /\ BeingWritten \cap Slots(rb, rb.tail, Stored(rb)) = {}
    /\ IsPrefix(delivered, accepted)

\* C13 witness: the producer is between its two memcpy calls, writing slots
\* that wrap round the end of the region, while the consumer is between its
\* two memcpy calls reading elements, after earlier deliveries.
C13_Witness ==
    /\ PutOrder[proc.p.pc] = "copy2"
    /\ Lt32(One32, proc.p.len)
    /\ Lt32(And32(Add32(rb.head, proc.p.len), rb.mask), proc.p.len)
    /\ GetOrder[proc.c.pc] = "copy2"
    /\ proc.c.len # Zero32
    /\ delivered # <<>>

\* the ring is the one of ring_buffer_init(&ring, buf, 8, 2): capacity 4,
\* 2-byte elements
FourByTwo == usable /\ rb.size = ToU32(4) /\ rb.esize = ToU32(2)

\* the 2-byte elements first..last, least significant byte first
Elements(first, last) ==
    [k \in 1..(2 * (last - first + 1)) |->
        IF k % 2 = 1 THEN first + (k - 1) \div 2 ELSE 0]

\* C14 (SpecFill): on the fresh ring of capacity 4 (8 bytes, 2-byte
\* elements) the eight puts of the values 0..7 return 1,1,1,1,0,0,0,0, the
\* eight gets that follow return 1,1,1,1,0,0,0,0, and the four reads that
\* succeed deliver 0,1,2,3 in this order: 4..7 were never stored.
C14_FillThenDrain ==
    FourByTwo =>
        /\ (op = "put") =>
              /\ ret = (IF iter <= 4 THEN One32 ELSE Zero32)
              /\ accepted = Elements(0, (IF iter <= 4 THEN iter ELSE 4) - 1)
        /\ (op = "get") =>
              /\ ret = (IF iter - FillCalls <= 4 THEN One32 ELSE Zero32)
              /\ delivered =
                    Elements(0, (IF iter - FillCalls <= 4 THEN iter - FillCalls
                                 ELSE 4) - 1)
              /\ (ret = One32) =>
                    dst = [k \in 0..1 |-> IF k = 0 THEN iter - FillCalls - 1
                                          ELSE 0]
              /\ accepted = Elements(0, 3)

\* C14 witness: all sixteen calls are made, the last get returned 0 and
\* exactly 0,1,2,3 were delivered.
C14_Witness ==
    /\ FourByTwo
    /\ iter = 2 * FillCalls
    /\ op = "get"
    /\ ret = Zero32
    /\ delivered = <<0, 0, 1, 0, 2, 0, 3, 0>>

\* the physical slot of logical index start + j
SlotAt(r, start, j) == ToNat(And32(Add32(start, ToU32(j)), r.mask))

\* C15: a ring_put that accepts k elements from head stores source element
\* i, 0 <= i < k, in slot (head + i) & mask, at byte offset
\* ((head + i) & mask) * esize.  When (head & mask) + k > capacity the first
\* memcpy carries capacity - (head & mask) elements to the end of the region
\* and the second the rest to slot 0; otherwise the first carries all k; the
\* two carry k * esize bytes, the front of the source.
C15_WritePlacement ==
    [][op' = "put" =>
          \A k \in {ToNat(ret')}, E \in {ToNat(rb.esize)},
             C \in {ToNat(rb.size)}, h \in {SlotAt(rb, rb.head, 0)},
             s \in {Segments(rb, ret', rb.head)} :
             \A atEnd \in {IF h + k > C THEN C - h ELSE k} :
                /\ \A j \in 0..(k - 1) :
                      \A slot \in {SlotAt(rb, rb.head, j)} :
                         /\ slot = (IF j < atEnd THEN h + j ELSE j - atEnd)
                         /\ \A b \in 0..(E - 1) :
                               mem'[slot * E + b] = Source(tmp')[j * E + b]
                /\ ToNat(s.offset) = h * E
                /\ ToNat(s.l) = atEnd * E
                /\ ToNat(Sub32(s.len, s.l)) = (k - atEnd) * E]_vars

\* C15 witness: on the ring whose indices were set to UINT32_MAX - 4 a put of
\* three elements placed two at the end of the region and one in slot 0.
C15_Witness ==
    /\ op = "put"
    /\ forced
    /\ ret = ToU32(3)
    /\ And32(rb.head, rb.mask) = One32

\* C16: a ring_get that delivers k elements from tail makes destination
\* element i, 0 <= i < k, the content of slot (tail + i) & mask.  When
\* (tail & mask) + k > capacity the first memcpy takes the elements up to the
\* end of the region and the second the rest from slot 0; the destination
\* receives exactly k elements in logical order.
C16_ReadPlacement ==
    [][op' = "get" =>
          \A k \in {ToNat(ret')}, E \in {ToNat(rb.esize)},
             C \in {ToNat(rb.size)}, t \in {SlotAt(rb, rb.tail, 0)},
             s \in {Segments(rb, ret', rb.tail)} :
             \A atEnd \in {IF t + k > C THEN C - t ELSE k} :
                /\ DOMAIN dst' = 0..(k * E - 1)
                /\ \A j \in 0..(k - 1) :
                      \A slot \in {SlotAt(rb, rb.tail, j)} :
                         /\ slot = (IF j < atEnd THEN t + j ELSE j - atEnd)
                         /\ \A b \in 0..(E - 1) :
                               dst'[j * E + b] = mem[slot * E + b]
                /\ ToNat(s.offset) = t * E
                /\ ToNat(s.l) = atEnd * E
                /\ ToNat(Sub32(s.len, s.l)) = (k - atEnd) * E]_vars

\* C16 witness: a get of three 2-byte elements took one from the last slot
\* of the region and two from slots 0 and 1.
C16_Witness ==
    /\ op = "get"
    /\ ~forced
    /\ rb.esize = ToU32(2)
    /\ rb.size = ToU32(4)
    /\ ret = ToU32(3)
    /\ And32(rb.tail, rb.mask) = ToU32(2)

\* the bytes of the stored elements, oldest first: slots tail, tail + 1, ...,
\* head - 1
RingContent ==
    [k \in 1..(ToNat(Stored(rb)) * ToNat(rb.esize)) |->
        mem[SlotAt(rb, rb.tail, (k - 1) \div ToNat(rb.esize)) * ToNat(rb.esize)
            + ((k - 1) % ToNat(rb.esize))]]

\* the queue the ring stands for: what was accepted and not yet delivered
Queue == SubSeq(accepted, Len(delivered) + 1, Len(accepted))

\* C17: the ring refines a bounded FIFO queue.  After any sequence of puts
\* and gets with any counts, the bytes delivered, concatenated, are the
\* first bytes of the accepted prefixes of the puts' sources, concatenated;
\* what was accepted and not delivered is what the ring holds, in order, and
\* is never more than the capacity: nothing is lost, duplicated, reordered
\* or overwritten before it is read.
C17_Fifo ==
    usable =>
        /\ IsPrefix(delivered, accepted)
        /\ RingContent = Queue
        /\ Len(Queue) <= ToNat(rb.size) * ToNat(rb.esize)

\* C17 witness: after two or more elements were delivered and the indices
\* crossed 2^32, the ring holds two or more elements that lie round the end
\* of the region.
C17_Witness ==
    /\ usable
    /\ forced
    /\ Len(delivered) >= 2 * ToNat(rb.esize)
    /\ Lt32(One32, Stored(rb))
    /\ Lt32(rb.head, rb.tail)
    /\ SlotAt(rb, rb.head, 0) < SlotAt(rb, rb.tail, 0)

\* C18: the two memcpy calls of __ring_put and __ring_get touch only byte
\* offsets in [0, capacity * esize) of the region, and capacity * esize is
\* at most the region size ring_buffer_init was given; the 32-bit products
\* offset * esize, size * esize and len * esize are the products of the
\* natural numbers (nothing wraps at 2^32); the byte count len - l of the
\* second memcpy is at most the offset at which the first one starts.
C18_MemoryBounds ==
    [][/\ (op' = "init" /\ iret' = 0) =>
             ToNat(rb'.size) * ToNat(rb'.esize) <= arg'.size
       /\ (op' \in {"put", "get"}) =>
             \A s \in {Segments(rb, ret', IF op' = "put" THEN rb.head
                                          ELSE rb.tail)},
                CE \in {ToNat(rb.size) * ToNat(rb.esize)} :
                /\ CE <= RegionBytes
                /\ ToNat(s.offset) =
                      SlotAt(rb, IF op' = "put" THEN rb.head ELSE rb.tail, 0)
                      * ToNat(rb.esize)
                /\ ToNat(s.size) = CE
                /\ ToNat(s.len) = ToNat(ret') * ToNat(rb.esize)
                /\ Le32(s.l, s.len)
                /\ ToNat(s.offset) + ToNat(s.l) <= CE
                /\ ToNat(Sub32(s.len, s.l)) <= ToNat(s.offset)
                /\ ToNat(Sub32(s.len, s.l)) <= CE]_vars

\* C18 witness: a get of 2-byte elements whose second memcpy took bytes from
\* the start of the region up to the very byte at which its first memcpy had
\* started, on the ring that fills the whole region.
C18_Witness ==
    /\ op = "get"
    /\ rb.esize = ToU32(2)
    /\ ToNat(rb.size) * ToNat(rb.esize) = RegionBytes
    /\ ret = rb.size
    /\ And32(rb.tail, rb.mask) # Zero32

\* the write of head finds its elements in place: the slots head, ...,
\* head + len - 1 hold the first len elements of the source
CopiedIn ==
    \A E \in {ToNat(rb.esize)} :
       \A j \in 0..(ToNat(proc.p.len) - 1), b \in 0..(E - 1) :
          mem[SlotAt(rb, rb.head, j) * E + b] = Source(tmp)[j * E + b]

\* the write of tail finds its elements copied out: the caller's array holds
\* the content of the slots tail, ..., tail + len - 1
CopiedOut ==
    \A E \in {ToNat(rb.esize)} :
       \A j \in 0..(ToNat(proc.c.len) - 1), b \in 0..(E - 1) :
          proc.c.dst[j * E + b] = mem[SlotAt(rb, rb.tail, j) * E + b]

\* C19 (SpecSPSC): inside a ring_put head is advanced only after all the
\* accepted elements have been copied in, and inside a ring_get tail is
\* advanced only after all the delivered elements have been copied out; so
\* in every state, also in the middle of a call, the slots tail..head-1
\* hold their complete elements, and no step writes a byte of such a slot.
C19_CopyBeforePublish ==
    /\ [](RingContent = Queue)
    /\ [][/\ (rb'.head # rb.head) => (CopiedIn /\ mem' = mem)
          /\ (rb'.tail # rb.tail) => (CopiedOut /\ mem' = mem)
          /\ \A b \in Region :
                (mem'[b] # mem[b]) =>
                    SlotOf(rb, b) \notin Slots(rb, rb.tail, Stored(rb))]_vars

\* C19 witness: a ring_put has copied two or more elements round the end of
\* the region and not yet advanced head, while unread elements are stored and
\* a ring_get has copied elements out and not yet advanced tail.
C19_Witness ==
    /\ PutOrder[proc.p.pc] = "head"
    /\ Lt32(One32, proc.p.len)
    /\ SlotAt(rb, rb.head, ToNat(proc.p.len)) < ToNat(proc.p.len)
    /\ SlotAt(rb, rb.head, ToNat(proc.p.len)) # 0
    /\ Stored(rb) # Zero32
    /\ GetOrder[proc.c.pc] = "tail"
    /\ proc.c.len # Zero32

\* all the data of the producer
Offered == Bytes(Source(stream), MaxAdvance * ToNat(rb.esize))

\* C20 (SpecLive): the buffer is never full and empty at once, so of
\* ring_put(1) and ring_get(1) at least one returns 1; and with a producer
\* that offers what was not accepted again and a consumer that keeps asking
\* for one or more elements, both running for ever, every element offered
\* is delivered in the end, in order.
C20_Progress ==
    /\ [](\/ ring_put(rb, mem, Source(tmp), One32).ret = One32
          \/ ring_get(rb, mem, Blank(ToNat(rb.esize)), One32).ret = One32)
    /\ <>[](delivered = Offered)

\* C20 witness: everything was delivered through a ring of fewer slots than
\* the producer had elements, and the consumer, calling again, has found the
\* buffer empty.
C20_Witness ==
    /\ delivered = Offered
    /\ ToNat(rb.size) < MaxAdvance
    /\ GetOrder[proc.c.pc] = "copy1"
    /\ proc.c.len = Zero32

=============================================================================
